---- MODULE Spec2Model ----
(***************************************************************************)
(* Model of src/utils/actions.ts: the write helpers that validate their    *)
(* request, build a contract call descriptor and hand it to handleTx, and  *)
(* transferEther, which drives the wallet client itself.                   *)
(*                                                                         *)
(* One helper call is followed from its synchronous validation through     *)
(* every awaited step.  The collaborators imported from                    *)
(* utils/toWagmiProvider (assertAddress, toWagmiProvider, handleTx) are    *)
(* not part of src/ and are modelled from the specification; the wagmi     *)
(* calls (readContract, prepareSendTransaction, sendTransaction, ...) are  *)
(* the environment: each may fail or return any value of its type.         *)
(***************************************************************************)
EXTENDS Integers, Sequences, FiniteSets, TLC

\* ------------------------------------------------------------------ bounds
MaxLen == 2          \* longest receivers / amounts / tokenIDs list tried
MaxSubmits == 4      \* submissions one helper call may make before the model stops following it

\* ------------------------------------------------------------ value domains
None == <<>>
Some(x) == <<x>>

ValidAddresses == {"0xA", "0xB"}
\* a TAddress | undefined input: a good address, undefined, the zero address
OptAddresses == {"0xA", "undefined", "0x0"}
ListAddresses == {"0xA", "0xB", "0x0"}
AmountValues == {-1, 0, 1, 2}
TokenIDValues == {7, 8}
BalanceValues == {0, 1, 2}

SeqsUpTo(S, n) == UNION {[1..k -> S] : k \in 0..n}

\* utils/toWagmiProvider.assertAddress: raises unless the address is a set, non-zero address
IsValidAddress(a) == a \in ValidAddresses

\* Array.prototype.reduce((a, b) => a + b, 0n), left to right
RECURSIVE ReduceSum(_, _, _)
ReduceSum(xs, i, acc) ==
    IF i > Len(xs) THEN acc ELSE ReduceSum(xs, i + 1, acc + xs[i])

\* the filtering loop of transferERC1155: keeps, in order, the ids whose balance is > 0
RECURSIVE FilterLoop(_, _, _, _, _)
FilterLoop(tokenIDs, balanceOfBatch, i, filteredTokenIDs, filteredAmounts) ==
    IF i > Len(tokenIDs) THEN <<filteredTokenIDs, filteredAmounts>>
    ELSE IF balanceOfBatch[i] > 0
         THEN FilterLoop(tokenIDs, balanceOfBatch, i + 1,
                         Append(filteredTokenIDs, tokenIDs[i]),
                         Append(filteredAmounts, balanceOfBatch[i]))
         ELSE FilterLoop(tokenIDs, balanceOfBatch, i + 1, filteredTokenIDs, filteredAmounts)

\* ------------------------------------------------------------------- state
VARIABLES
    pc,         \* position of the helper call: idle, provider, read, handleTx, callerFallback, done
    fn,         \* the helper called
    props,      \* its request object (mutated by approveERC20)
    user,       \* wagmiProvider.address once resolved
    call,       \* the call descriptor handed to handleTx
    effects,    \* what the call has done so far: provider, read, submit, status
    submitted,  \* the call descriptors submitted, in order
    result,     \* none, raised, success, failure
    error,      \* the condition raised
    balances,   \* transferERC1155's local balanceOfBatch, once read
    \* transferEther: two calls that share one status callback
    epc,        \* per call: idle, provider, prepare, client, gasPrice, prepare2, send, wait, returned, raised
    eprops,     \* per call: receiverAddress, amount, shouldAdjustForGas, statusHandler
    config,     \* per call: the local `config` (to, value, gas, maxPriorityFeePerGas)
    prepared,   \* per call: the first prepared config as it was returned
    gasPrice,   \* per call: the local `gasPrice`, once looked up
    sent,       \* per call: the configs handed to sendTransaction, in order
    esteps,     \* per call: the awaited collaborators called, in order
    failed,     \* per call: the awaited step that rejected, or "none"
    eresult,    \* per call: what the call returned or raised
    timer,      \* per call: the 3-second reset is scheduled and has not fired
    statusLog   \* every status the shared callback was given, in order, with its caller

helperVars == <<pc, fn, props, user, call, effects, submitted, result, error, balances>>

NoProps ==
    [contractAddress |-> "undefined", spenderAddress |-> "undefined",
     receiverAddress |-> "undefined", collectionAddress |-> "undefined",
     tokenToDisperse |-> "undefined", receivers |-> <<>>, amounts |-> <<>>,
     tokenIDs |-> <<>>, tokenID |-> 0, amount |-> 0, shouldAllow |-> FALSE,
     onTrySomethingElse |-> "none"]

NoCall == [address |-> "undefined", abi |-> "none", functionName |-> "none",
           args |-> <<>>, value |-> None]

etherVars == <<epc, eprops, config, prepared, gasPrice, sent, esteps, failed, eresult,
               timer, statusLog>>

vars == <<helperVars, etherVars>>

Calls == {1, 2}

\* the stateless helpers are followed one call at a time: a call starts from rest
AtRest == pc = "idle" /\ \A c \in Calls : epc[c] = "idle"

HelperInit ==
    /\ pc = "idle"
    /\ fn = "none"
    /\ props = NoProps
    /\ user = "undefined"
    /\ call = NoCall
    /\ effects = <<>>
    /\ submitted = <<>>
    /\ result = "none"
    /\ error = "none"
    /\ balances = None

\* a failed assertion: the helper raises and nothing else of it runs
Raise(p, f, msg) ==
    /\ pc' = "done"
    /\ fn' = f
    /\ props' = p
    /\ result' = "raised"
    /\ error' = msg
    /\ UNCHANGED <<user, call, effects, submitted, balances, etherVars>>

\* `return await handleTx(props, descriptor)`
Delegate(p, f, c) ==
    /\ pc' = "handleTx"
    /\ fn' = f
    /\ props' = p
    /\ call' = c
    /\ UNCHANGED <<user, effects, submitted, result, error, balances, etherVars>>

\* -------------------------------------------------- validation of each helper
\* Each *_check is the helper's run of assertions, in source order: the
\* condition raised first, or "ok" when all pass.
approveERC20_check(p) ==
    IF ~IsValidAddress(p.spenderAddress) THEN "spenderAddress"
    ELSE IF ~IsValidAddress(p.contractAddress) THEN "Address"
    ELSE "ok"

approveAllERC721_check(p) ==
    IF ~IsValidAddress(p.spenderAddress) THEN "spenderAddress"
    ELSE IF ~IsValidAddress(p.contractAddress) THEN "Address"
    ELSE "ok"

transferERC721_check(p) ==
    IF ~IsValidAddress(p.receiverAddress) THEN "Receiver address"
    ELSE IF ~IsValidAddress(p.contractAddress) THEN "Contract address"
    ELSE "ok"

batchTransferERC721_check(p) ==
    IF ~IsValidAddress(p.collectionAddress) THEN "Collection address"
    ELSE IF ~IsValidAddress(p.receiverAddress) THEN "Receiver address"
    ELSE IF ~IsValidAddress(p.contractAddress) THEN "Contract address"
    ELSE "ok"

transferERC1155_check(p) ==
    IF ~IsValidAddress(p.receiverAddress) THEN "Receiver address"
    ELSE IF ~IsValidAddress(p.contractAddress) THEN "Contract address"
    ELSE "ok"

transferERC20_check(p) ==
    IF ~IsValidAddress(p.receiverAddress) THEN "receiverAddress"
    ELSE IF ~IsValidAddress(p.contractAddress) THEN "Address"
    ELSE "ok"

\* disperseETH accepting a zero amount (>= for >)
disperseETH_check_zeroAllowed(p) ==
    IF ~IsValidAddress(p.contractAddress) THEN "Address"
    ELSE IF \E i \in 1..Len(p.receivers) : ~IsValidAddress(p.receivers[i]) THEN "receiver"
    ELSE IF \E i \in 1..Len(p.amounts) : ~(p.amounts[i] >= 0) THEN "amount must be greater than 0"
    ELSE IF Len(p.receivers) # Len(p.amounts) THEN "receivers and amounts must be the same length"
    ELSE "ok"

disperseETH_check(p) ==
    IF ~IsValidAddress(p.contractAddress) THEN "Address"
    ELSE IF \E i \in 1..Len(p.receivers) : ~IsValidAddress(p.receivers[i]) THEN "receiver"
    ELSE IF \E i \in 1..Len(p.amounts) : ~(p.amounts[i] > 0) THEN "amount must be greater than 0"
    ELSE IF Len(p.receivers) # Len(p.amounts) THEN "receivers and amounts must be the same length"
    ELSE "ok"

\* disperseERC20 without the loop over the receivers
disperseERC20_check_receiversUnchecked(p) ==
    IF ~IsValidAddress(p.tokenToDisperse) THEN "The tokenToDisperse"
    ELSE IF ~IsValidAddress(p.contractAddress) THEN "Address"
    ELSE IF \E i \in 1..Len(p.amounts) : ~(p.amounts[i] > 0) THEN "amount must be greater than 0"
    ELSE IF Len(p.receivers) # Len(p.amounts) THEN "receivers and amounts must be the same length"
    ELSE "ok"

disperseERC20_check(p) ==
    IF ~IsValidAddress(p.tokenToDisperse) THEN "The tokenToDisperse"
    ELSE IF ~IsValidAddress(p.contractAddress) THEN "Address"
    ELSE IF \E i \in 1..Len(p.receivers) : ~IsValidAddress(p.receivers[i]) THEN "receiver"
    ELSE IF \E i \in 1..Len(p.amounts) : ~(p.amounts[i] > 0) THEN "amount must be greater than 0"
    ELSE IF Len(p.receivers) # Len(p.amounts) THEN "receivers and amounts must be the same length"
    ELSE "ok"

\* ------------------------------------------------ the descriptors handed on
approveERC20_call(p) ==
    [address |-> p.contractAddress, abi |-> "erc20ABI", functionName |-> "approve",
     args |-> <<p.spenderAddress, p.amount>>, value |-> None]

\* the descriptor built inside props.onTrySomethingElse
approveERC20_alternate(p) ==
    [address |-> p.contractAddress, abi |-> "ALTERNATE_ERC20_APPROVE_ABI",
     functionName |-> "approve", args |-> <<p.spenderAddress, p.amount>>, value |-> None]

approveAllERC721_call(p) ==
    [address |-> p.contractAddress, abi |-> "erc721ABI", functionName |-> "setApprovalForAll",
     args |-> <<p.spenderAddress, p.shouldAllow>>, value |-> None]

transferERC721_call(p, u) ==
    [address |-> p.contractAddress, abi |-> "erc721ABI", functionName |-> "safeTransferFrom",
     args |-> <<u, p.receiverAddress, p.tokenID>>, value |-> None]

batchTransferERC721_call(p) ==
    [address |-> p.contractAddress, abi |-> "NFT_MIGRATOOOR_ABI", functionName |-> "migrate",
     args |-> <<p.collectionAddress, p.receiverAddress, p.tokenIDs>>, value |-> None]

\* the loop keeping every id whose balance is >= 0, which is every id
RECURSIVE FilterLoopKeepZero(_, _, _, _, _)
FilterLoopKeepZero(tokenIDs, balanceOfBatch, i, filteredTokenIDs, filteredAmounts) ==
    IF i > Len(tokenIDs) THEN <<filteredTokenIDs, filteredAmounts>>
    ELSE IF balanceOfBatch[i] >= 0
         THEN FilterLoopKeepZero(tokenIDs, balanceOfBatch, i + 1,
                                 Append(filteredTokenIDs, tokenIDs[i]),
                                 Append(filteredAmounts, balanceOfBatch[i]))
         ELSE FilterLoopKeepZero(tokenIDs, balanceOfBatch, i + 1, filteredTokenIDs, filteredAmounts)

transferERC1155_filter_keepZero(tokenIDs, balanceOfBatch) ==
    FilterLoopKeepZero(tokenIDs, balanceOfBatch, 1, <<>>, <<>>)

transferERC1155_filter(tokenIDs, balanceOfBatch) ==
    FilterLoop(tokenIDs, balanceOfBatch, 1, <<>>, <<>>)

transferERC1155_call(p, u, filtered) ==
    [address |-> p.contractAddress, abi |-> "ERC1155_ABI", functionName |-> "safeBatchTransferFrom",
     args |-> <<u, p.receiverAddress, filtered[1], filtered[2], "0x">>, value |-> None]

transferERC20_call(p) ==
    [address |-> p.contractAddress, abi |-> "erc20ABI", functionName |-> "transfer",
     args |-> <<p.receiverAddress, p.amount>>, value |-> None]

\* disperseETH attaching only the first amount
disperseETH_call_firstAmount(p) ==
    [address |-> p.contractAddress, abi |-> "DISPERSE_ABI", functionName |-> "disperseEther",
     args |-> <<p.receivers, p.amounts>>,
     value |-> Some(IF p.amounts = <<>> THEN 0 ELSE p.amounts[1])]

disperseETH_call(p) ==
    [address |-> p.contractAddress, abi |-> "DISPERSE_ABI", functionName |-> "disperseEther",
     args |-> <<p.receivers, p.amounts>>, value |-> Some(ReduceSum(p.amounts, 1, 0))]

disperseERC20_call(p) ==
    [address |-> p.contractAddress, abi |-> "DISPERSE_ABI", functionName |-> "disperseToken",
     args |-> <<p.tokenToDisperse, p.receivers, p.amounts>>, value |-> None]

\* ------------------------------------------------------- the helpers' steps
\* A helper starts from rest (AtRest); every await is a step of its own.
approveERC20 ==
    /\ AtRest
    /\ \E spender \in OptAddresses, contract \in OptAddresses, amount \in {1, 2},
          fallback \in {"none", "caller"} :
         LET p == [NoProps EXCEPT !.spenderAddress = spender, !.contractAddress = contract,
                                  !.amount = amount, !.onTrySomethingElse = fallback]
         IN IF approveERC20_check(p) # "ok"
            THEN Raise(p, "approveERC20", approveERC20_check(p))
            ELSE Delegate([p EXCEPT !.onTrySomethingElse = "approveERC20"],
                          "approveERC20", approveERC20_call(p))

approveAllERC721 ==
    /\ AtRest
    /\ \E spender \in OptAddresses, contract \in OptAddresses, allow \in BOOLEAN,
          fallback \in {"none", "caller"} :
         LET p == [NoProps EXCEPT !.spenderAddress = spender, !.contractAddress = contract,
                                  !.shouldAllow = allow, !.onTrySomethingElse = fallback]
         IN IF approveAllERC721_check(p) # "ok"
            THEN Raise(p, "approveAllERC721", approveAllERC721_check(p))
            ELSE Delegate(p, "approveAllERC721", approveAllERC721_call(p))

\* up to `await toWagmiProvider(props.connector)`
transferERC721 ==
    /\ AtRest
    /\ \E receiver \in OptAddresses, contract \in OptAddresses, id \in TokenIDValues :
         LET p == [NoProps EXCEPT !.receiverAddress = receiver, !.contractAddress = contract,
                                  !.tokenID = id]
         IN IF transferERC721_check(p) # "ok"
            THEN Raise(p, "transferERC721", transferERC721_check(p))
            ELSE /\ pc' = "provider"
                 /\ fn' = "transferERC721"
                 /\ props' = p
                 /\ UNCHANGED <<user, call, effects, submitted, result, error, balances, etherVars>>

batchTransferERC721 ==
    /\ AtRest
    /\ \E collection \in OptAddresses, receiver \in OptAddresses, contract \in OptAddresses,
          ids \in SeqsUpTo(TokenIDValues, MaxLen) :
         LET p == [NoProps EXCEPT !.collectionAddress = collection, !.receiverAddress = receiver,
                                  !.contractAddress = contract, !.tokenIDs = ids]
         IN IF batchTransferERC721_check(p) # "ok"
            THEN Raise(p, "batchTransferERC721", batchTransferERC721_check(p))
            ELSE Delegate(p, "batchTransferERC721", batchTransferERC721_call(p))

\* up to `await toWagmiProvider(props.connector)`
transferERC1155 ==
    /\ AtRest
    /\ \E receiver \in OptAddresses, contract \in OptAddresses,
          ids \in SeqsUpTo(TokenIDValues, MaxLen) :
         LET p == [NoProps EXCEPT !.receiverAddress = receiver, !.contractAddress = contract,
                                  !.tokenIDs = ids]
         IN IF transferERC1155_check(p) # "ok"
            THEN Raise(p, "transferERC1155", transferERC1155_check(p))
            ELSE /\ pc' = "provider"
                 /\ fn' = "transferERC1155"
                 /\ props' = p
                 /\ UNCHANGED <<user, call, effects, submitted, result, error, balances, etherVars>>

transferERC20 ==
    /\ AtRest
    /\ \E receiver \in OptAddresses, contract \in OptAddresses, amount \in {1, 2} :
         LET p == [NoProps EXCEPT !.receiverAddress = receiver, !.contractAddress = contract,
                                  !.amount = amount]
         IN IF transferERC20_check(p) # "ok"
            THEN Raise(p, "transferERC20", transferERC20_check(p))
            ELSE Delegate(p, "transferERC20", transferERC20_call(p))

disperseETH ==
    /\ AtRest
    /\ \E contract \in OptAddresses, receivers \in SeqsUpTo(ListAddresses, MaxLen),
          amounts \in SeqsUpTo(AmountValues, MaxLen) :
         LET p == [NoProps EXCEPT !.contractAddress = contract, !.receivers = receivers,
                                  !.amounts = amounts]
         IN IF disperseETH_check(p) # "ok"
            THEN Raise(p, "disperseETH", disperseETH_check(p))
            ELSE Delegate(p, "disperseETH", disperseETH_call(p))

disperseERC20 ==
    /\ AtRest
    /\ \E token \in OptAddresses, contract \in OptAddresses,
          receivers \in SeqsUpTo(ListAddresses, MaxLen),
          amounts \in SeqsUpTo(AmountValues, MaxLen) :
         LET p == [NoProps EXCEPT !.tokenToDisperse = token, !.contractAddress = contract,
                                  !.receivers = receivers, !.amounts = amounts]
         IN IF disperseERC20_check(p) # "ok"
            THEN Raise(p, "disperseERC20", disperseERC20_check(p))
            ELSE Delegate(p, "disperseERC20", disperseERC20_call(p))

\* The awaited toWagmiProvider of transferERC721 / transferERC1155 settles: it
\* rejects, or yields the connected account, which assertAddress then checks.
ResolveProvider ==
    /\ pc = "provider"
    /\ \E outcome \in {"rejected"} \cup ValidAddresses \cup {"0x0"} :
         /\ effects' = Append(effects, "provider")
         /\ IF outcome = "rejected"
            THEN /\ pc' = "done" /\ result' = "raised" /\ error' = "toWagmiProvider"
                 /\ UNCHANGED <<user, call>>
            ELSE IF ~IsValidAddress(outcome)
            THEN /\ pc' = "done" /\ result' = "raised" /\ error' = "User address"
                 /\ user' = outcome
                 /\ UNCHANGED call
            ELSE /\ user' = outcome
                 /\ UNCHANGED <<result, error>>
                 /\ IF fn = "transferERC721"
                    THEN /\ pc' = "handleTx"
                         /\ call' = transferERC721_call(props, outcome)
                    ELSE /\ pc' = "read"
                         /\ UNCHANGED call
    /\ UNCHANGED <<fn, props, submitted, balances, etherVars>>

\* transferERC1155 after `await readContract(balanceOfBatch)`: the read rejects, or
\* returns one balance per token id; the ids are filtered and the batch handed on.
ReadBalances ==
    /\ pc = "read"
    /\ effects' = Append(effects, "read")
    /\ \/ /\ pc' = "done" /\ result' = "raised" /\ error' = "readContract"
          /\ UNCHANGED <<call, balances>>
       \/ \E balanceOfBatch \in [1..Len(props.tokenIDs) -> BalanceValues] :
            LET filtered == transferERC1155_filter(props.tokenIDs, balanceOfBatch)
            IN /\ balances' = Some(balanceOfBatch)
               /\ IF ~(Len(filtered[1]) > 0)
                  THEN /\ pc' = "done" /\ result' = "raised" /\ error' = "No tokens to transfer"
                       /\ UNCHANGED call
                  ELSE /\ pc' = "handleTx"
                       /\ call' = transferERC1155_call(props, user, filtered)
                       /\ UNCHANGED <<result, error>>
    /\ UNCHANGED <<fn, props, user, submitted, etherVars>>

\* handleTx(props, call): submits the call and waits for it; on success reports
\* through the status callback and returns; on failure invokes the request's
\* fallback when it has one, else reports the error and returns a failure result.
\* approveERC20's fallback (the closure over props) asserts the spender again and
\* awaits handleTx(props, alternate descriptor) with the very same props.
HandleTx ==
    /\ pc = "handleTx"
    /\ Len(submitted) < MaxSubmits
    /\ submitted' = Append(submitted, call)
    /\ \E ok \in BOOLEAN :
         IF ok
         THEN /\ effects' = effects \o <<"submit", "status">>
              /\ pc' = "done" /\ result' = "success"
              /\ UNCHANGED <<call, error>>
         ELSE IF props.onTrySomethingElse = "approveERC20"
         THEN /\ effects' = Append(effects, "submit")
              /\ IF ~IsValidAddress(props.spenderAddress)
                 THEN /\ pc' = "done" /\ result' = "raised" /\ error' = "spenderAddress"
                      /\ UNCHANGED call
                 ELSE /\ call' = approveERC20_alternate(props)
                      /\ UNCHANGED <<pc, result, error>>
         ELSE IF props.onTrySomethingElse = "caller"
         THEN /\ effects' = Append(effects, "submit")
              /\ pc' = "callerFallback"
              /\ UNCHANGED <<call, result, error>>
         ELSE /\ effects' = effects \o <<"submit", "status">>
              /\ pc' = "done" /\ result' = "failure"
              /\ UNCHANGED <<call, error>>
    /\ UNCHANGED <<fn, props, user, balances, etherVars>>

\* a fallback supplied by the caller runs and settles the call either way
CallerFallback ==
    /\ pc = "callerFallback"
    /\ effects' = Append(effects, "fallback")
    /\ pc' = "done"
    /\ \E r \in {"success", "failure"} : result' = r
    /\ UNCHANGED <<fn, props, user, call, submitted, error, balances, etherVars>>

HelperNext ==
    \/ approveERC20 \/ approveAllERC721 \/ transferERC721 \/ batchTransferERC721
    \/ transferERC1155 \/ transferERC20 \/ disperseETH \/ disperseERC20
    \/ ResolveProvider \/ ReadBalances \/ HandleTx \/ CallerFallback


\* ------------------------------------------------------------ transferEther
BaseTransferCost == 21000

EtherReceivers == {"0xA", "undefined"}
EtherAmounts == {20000, 21006, 30000}
GasValues == {None, Some(2)}
FeeValues == {None, Some(0), Some(3)}
GasPriceValues == {0, 5}

\* What a run draws from: the caller's inputs and the values the wallet client
\* may return.  FullEnv follows one call through every numeric case; OverlapEnv
\* follows two overlapping calls, where only the order of the reports matters.
FullEnv == [receivers |-> EtherReceivers, amounts |-> EtherAmounts, handlers |-> BOOLEAN,
            gas |-> GasValues, fees |-> FeeValues, prices |-> GasPriceValues]
OverlapEnv == [receivers |-> {"0xA"}, amounts |-> {30000}, handlers |-> {TRUE},
               gas |-> {Some(2)}, fees |-> {None, Some(3)}, prices |-> {5}]

\* web-lib toBigInt: undefined becomes 0n
toBigInt(x) == IF x = None THEN 0 ELSE x[1]

\* `!x` on a bigint | undefined: true for undefined and for 0n
IsFalsy(x) == x = None \/ x[1] = 0

NoEtherProps == [receiverAddress |-> "undefined", amount |-> 0,
                 shouldAdjustForGas |-> FALSE, statusHandler |-> FALSE]

NoConfig == [to |-> "undefined", value |-> 0, gas |-> None, maxPriorityFeePerGas |-> None]

EtherInit ==
    /\ epc = [c \in Calls |-> "idle"]
    /\ eprops = [c \in Calls |-> NoEtherProps]
    /\ config = [c \in Calls |-> NoConfig]
    /\ prepared = [c \in Calls |-> NoConfig]
    /\ gasPrice = [c \in Calls |-> None]
    /\ sent = [c \in Calls |-> <<>>]
    /\ esteps = [c \in Calls |-> <<>>]
    /\ failed = [c \in Calls |-> "none"]
    /\ eresult = [c \in Calls |-> [kind |-> "none", isSuccessful |-> FALSE, detail |-> "none"]]
    /\ timer = [c \in Calls |-> FALSE]
    /\ statusLog = <<>>

\* props.statusHandler?.({...defaultTxStatus, <status>: true}); "default" sets no flag
Report(log, c, status) ==
    IF eprops[c].statusHandler THEN Append(log, [call |-> c, status |-> status]) ELSE log

\* const newAmount = toBigInt(config.gas) * toBigInt(config.maxPriorityFeePerGas) + 21_000n
NewAmount(cfg) == toBigInt(cfg.gas) * toBigInt(cfg.maxPriorityFeePerGas) + BaseTransferCost

\* the catch block, then finally: error status, failure result, reset scheduled
Catch(c, step) ==
    /\ statusLog' = Report(statusLog, c, "error")
    /\ eresult' = [eresult EXCEPT ![c] = [kind |-> "returned", isSuccessful |-> FALSE, detail |-> step]]
    /\ failed' = [failed EXCEPT ![c] = step]
    /\ timer' = [timer EXCEPT ![c] = TRUE]
    /\ epc' = [epc EXCEPT ![c] = "returned"]

\* an exception that leaves transferEther: no catch, no finally
Propagate(c, step) ==
    /\ eresult' = [eresult EXCEPT ![c] = [kind |-> "raised", isSuccessful |-> FALSE, detail |-> step]]
    /\ epc' = [epc EXCEPT ![c] = "raised"]

\* assertAddress(receiver); statusHandler(pending); up to `await toWagmiProvider`
transferEther(c, env) ==
    /\ pc = "idle"
    /\ epc[c] = "idle"
    /\ \E receiver \in env.receivers, amount \in env.amounts, adjust \in BOOLEAN,
          handler \in env.handlers :
         LET p == [receiverAddress |-> receiver, amount |-> amount,
                   shouldAdjustForGas |-> adjust, statusHandler |-> handler]
         IN /\ eprops' = [eprops EXCEPT ![c] = p]
            /\ IF ~IsValidAddress(receiver)
               THEN /\ Propagate(c, "receiverAddress")
                    /\ UNCHANGED statusLog
               ELSE /\ statusLog' = IF handler
                                    THEN Append(statusLog, [call |-> c, status |-> "pending"])
                                    ELSE statusLog
                    /\ epc' = [epc EXCEPT ![c] = "provider"]
                    /\ UNCHANGED eresult
    /\ UNCHANGED <<helperVars, config, prepared, gasPrice, sent, esteps, failed, timer>>

\* toWagmiProvider settles, then assertAddress(wagmiProvider.address): both before `try`
EtherProvider(c, env) ==
    /\ epc[c] = "provider"
    /\ esteps' = [esteps EXCEPT ![c] = Append(@, "toWagmiProvider")]
    /\ \E outcome \in {"rejected", "0xB", "0x0"} :
         IF outcome = "rejected"
         THEN /\ Propagate(c, "toWagmiProvider")
              /\ failed' = [failed EXCEPT ![c] = "toWagmiProvider"]
         ELSE IF ~IsValidAddress(outcome)
         THEN /\ Propagate(c, "userAddress")
              /\ UNCHANGED failed
         ELSE /\ epc' = [epc EXCEPT ![c] = "prepare"]
              /\ UNCHANGED <<eresult, failed>>
    /\ UNCHANGED <<helperVars, eprops, config, prepared, gasPrice, sent, timer, statusLog>>

\* the first prepareSendTransaction settles
EtherPrepare(c, env) ==
    /\ epc[c] = "prepare"
    /\ esteps' = [esteps EXCEPT ![c] = Append(@, "prepareSendTransaction")]
    /\ \/ /\ Catch(c, "prepareSendTransaction")
          /\ UNCHANGED <<config, prepared>>
       \/ \E gas \in env.gas, fee \in env.fees :
            LET cfg == [to |-> eprops[c].receiverAddress, value |-> eprops[c].amount,
                        gas |-> gas, maxPriorityFeePerGas |-> fee]
            IN /\ config' = [config EXCEPT ![c] = cfg]
               /\ prepared' = [prepared EXCEPT ![c] = cfg]
               /\ epc' = [epc EXCEPT ![c] =
                            IF eprops[c].shouldAdjustForGas
                            THEN IF IsFalsy(cfg.maxPriorityFeePerGas) THEN "client" ELSE "prepare2"
                            ELSE "send"]
               /\ UNCHANGED <<eresult, failed, timer, statusLog>>
    /\ UNCHANGED <<helperVars, eprops, gasPrice, sent>>

\* getPublicClient settles
EtherClient(c, env) ==
    /\ epc[c] = "client"
    /\ esteps' = [esteps EXCEPT ![c] = Append(@, "getPublicClient")]
    /\ \/ Catch(c, "getPublicClient")
       \/ /\ epc' = [epc EXCEPT ![c] = "gasPrice"]
          /\ UNCHANGED <<eresult, failed, timer, statusLog>>
    /\ UNCHANGED <<helperVars, eprops, config, prepared, gasPrice, sent>>

\* client.getGasPrice settles; config.maxPriorityFeePerGas = gasPrice
EtherGasPrice(c, env) ==
    /\ epc[c] = "gasPrice"
    /\ esteps' = [esteps EXCEPT ![c] = Append(@, "getGasPrice")]
    /\ \/ /\ Catch(c, "getGasPrice")
          /\ UNCHANGED <<config, gasPrice>>
       \/ \E price \in env.prices :
            /\ gasPrice' = [gasPrice EXCEPT ![c] = Some(price)]
            /\ config' = [config EXCEPT ![c].maxPriorityFeePerGas = Some(price)]
            /\ epc' = [epc EXCEPT ![c] = "prepare2"]
            /\ UNCHANGED <<eresult, failed, timer, statusLog>>
    /\ UNCHANGED <<helperVars, eprops, prepared, sent>>

\* newAmount is computed and the second prepareSendTransaction settles
EtherPrepare2(c, env) ==
    /\ epc[c] = "prepare2"
    /\ esteps' = [esteps EXCEPT ![c] = Append(@, "prepareSendTransaction")]
    /\ \/ /\ Catch(c, "prepareSendTransaction")
          /\ UNCHANGED config
       \/ \E gas \in env.gas, fee \in env.fees :
            /\ config' = [config EXCEPT ![c] =
                            [to |-> eprops[c].receiverAddress,
                             value |-> eprops[c].amount - NewAmount(config[c]),
                             gas |-> gas, maxPriorityFeePerGas |-> fee]]
            /\ epc' = [epc EXCEPT ![c] = "send"]
            /\ UNCHANGED <<eresult, failed, timer, statusLog>>
    /\ UNCHANGED <<helperVars, eprops, prepared, gasPrice, sent>>

\* sendTransaction(config) settles
EtherSend(c, env) ==
    /\ epc[c] = "send"
    /\ esteps' = [esteps EXCEPT ![c] = Append(@, "sendTransaction")]
    /\ sent' = [sent EXCEPT ![c] = Append(@, [to |-> config[c].to, value |-> config[c].value])]
    /\ \/ Catch(c, "sendTransaction")
       \/ /\ epc' = [epc EXCEPT ![c] = "wait"]
          /\ UNCHANGED <<eresult, failed, timer, statusLog>>
    /\ UNCHANGED <<helperVars, eprops, config, prepared, gasPrice>>

\* waitForTransaction settles; the receipt is reported and returned; finally
EtherWait(c, env) ==
    /\ epc[c] = "wait"
    /\ esteps' = [esteps EXCEPT ![c] = Append(@, "waitForTransaction")]
    /\ \/ Catch(c, "waitForTransaction")
       \/ \E status \in {"success", "reverted"} :
            /\ statusLog' = IF status = "success" THEN Report(statusLog, c, "success")
                            ELSE IF status = "reverted" THEN Report(statusLog, c, "error")
                            ELSE statusLog
            /\ eresult' = [eresult EXCEPT ![c] =
                             [kind |-> "returned", isSuccessful |-> (status = "success"),
                              detail |-> status]]
            /\ timer' = [timer EXCEPT ![c] = TRUE]
            /\ epc' = [epc EXCEPT ![c] = "returned"]
            /\ UNCHANGED failed
    /\ UNCHANGED <<helperVars, eprops, config, prepared, gasPrice, sent>>

\* the setTimeout callback of the finally block runs, 3000 ms after it was set
TimerFire(c, env) ==
    /\ timer[c]
    /\ timer' = [timer EXCEPT ![c] = FALSE]
    /\ statusLog' = Report(statusLog, c, "default")
    /\ UNCHANGED <<helperVars, epc, eprops, config, prepared, gasPrice, sent, esteps, failed, eresult>>

EtherStep(c, env) ==
    \/ transferEther(c, env) \/ EtherProvider(c, env) \/ EtherPrepare(c, env)
    \/ EtherClient(c, env) \/ EtherGasPrice(c, env) \/ EtherPrepare2(c, env)
    \/ EtherSend(c, env) \/ EtherWait(c, env) \/ TimerFire(c, env)

Init == HelperInit /\ EtherInit

\* one helper call, or one transferEther call, from rest
Next == HelperNext \/ EtherStep(1, FullEnv)
Spec == Init /\ [][Next]_vars

\* two transferEther calls given the same status callback
NextOverlap == \E c \in Calls : EtherStep(c, OverlapEnv)
SpecOverlap == Init /\ [][NextOverlap]_vars

\* ================================================================== claims
Range(s) == {s[i] : i \in 1..Len(s)}

\* the addresses the caller supplies to each helper
CallerAddresses(f, p) ==
    CASE f = "approveERC20" -> {p.spenderAddress, p.contractAddress}
      [] f = "approveAllERC721" -> {p.spenderAddress, p.contractAddress}
      [] f = "transferERC721" -> {p.receiverAddress, p.contractAddress}
      [] f = "batchTransferERC721" -> {p.collectionAddress, p.receiverAddress, p.contractAddress}
      [] f = "transferERC1155" -> {p.receiverAddress, p.contractAddress}
      [] f = "transferERC20" -> {p.receiverAddress, p.contractAddress}
      [] f = "disperseETH" -> {p.contractAddress} \cup Range(p.receivers)
      [] f = "disperseERC20" -> {p.tokenToDisperse, p.contractAddress} \cup Range(p.receivers)
      [] OTHER -> {}

StatusesOf(c) == SelectSeq(statusLog, LAMBDA e : e.call = c)

IsDisperse == fn \in {"disperseETH", "disperseERC20"}

\* C1: a call given an invalid caller-supplied address raises, and before the
\* raise it has resolved no provider, read no contract, submitted nothing and
\* reported no status.  Holds for the eight delegating helpers and transferEther.
C1_InvalidAddressRaisesFirst ==
    /\ (fn # "none" /\ \E a \in CallerAddresses(fn, props) : ~IsValidAddress(a))
          => (result = "raised" /\ effects = <<>> /\ submitted = <<>>)
    /\ \A c \in Calls :
          (epc[c] # "idle" /\ ~IsValidAddress(eprops[c].receiverAddress))
             => /\ eresult[c].kind = "raised"
                /\ esteps[c] = <<>>
                /\ sent[c] = <<>>
                /\ StatusesOf(c) = <<>>

\* disperseERC20 raised on an invalid element of receivers, all else being valid
C1_Witness ==
    /\ fn = "disperseERC20"
    /\ result = "raised"
    /\ IsValidAddress(props.tokenToDisperse)
    /\ IsValidAddress(props.contractAddress)
    /\ Len(props.receivers) = 2
    /\ IsValidAddress(props.receivers[1])
    /\ ~IsValidAddress(props.receivers[2])
    /\ props.amounts = <<1, 2>>

\* C2: in transferEther, once the receiver passed validation, an awaited step that
\* rejects never leaves the call as an exception: the callback gets error and the
\* call returns isSuccessful = false.
C2_NetworkFailureReturned ==
    \A c \in Calls :
        failed[c] # "none"
           => /\ eresult[c].kind = "returned"
              /\ ~eresult[c].isSuccessful
              /\ (eprops[c].statusHandler
                    => \E i \in 1..Len(statusLog) :
                          statusLog[i] = [call |-> c, status |-> "error"])

\* C3: disperseETH and disperseERC20 raise and submit nothing when the lists
\* differ in length or an amount is not > 0; whatever they submit has lists of
\* equal length and every amount > 0.
C3_DisperseValidation ==
    IsDisperse
       => /\ (\/ Len(props.receivers) # Len(props.amounts)
              \/ \E i \in 1..Len(props.amounts) : props.amounts[i] <= 0)
                => (result = "raised" /\ submitted = <<>> /\ pc = "done")
          /\ (pc = "handleTx" \/ submitted # <<>>)
                => /\ Len(props.receivers) = Len(props.amounts)
                   /\ \A i \in 1..Len(props.amounts) : props.amounts[i] > 0

\* disperseETH raised on lists of different lengths, addresses and amounts being fine
C3_Witness ==
    /\ fn = "disperseETH"
    /\ result = "raised"
    /\ error = "receivers and amounts must be the same length"
    /\ Len(props.receivers) = 1
    /\ Len(props.amounts) = 2

\* C4: disperseETH and disperseERC20 given an empty batch raise and submit
\* nothing; no disperse call is submitted with zero receivers.
C4_EmptyBatchRejected ==
    (IsDisperse /\ props.receivers = <<>> /\ props.amounts = <<>>)
       => /\ submitted = <<>>
          /\ (pc = "done" => result = "raised")

\* the j-th smallest element of a set of indices
KthIndex(K, j) == CHOOSE i \in K : Cardinality({k \in K : k < i}) = j - 1

\* C5: transferERC1155 hands on exactly the ids whose balance is > 0, in their
\* order, each with its full balance at the same index; with no balance > 0 it
\* raises 'No tokens to transfer' and submits nothing.
C5_FilteredBatch ==
    (fn = "transferERC1155" /\ balances # None)
       => LET bal == balances[1]
              K == {i \in 1..Len(props.tokenIDs) : bal[i] > 0}
              ids == [j \in 1..Cardinality(K) |-> props.tokenIDs[KthIndex(K, j)]]
              amts == [j \in 1..Cardinality(K) |-> bal[KthIndex(K, j)]]
          IN IF K # {}
             THEN /\ pc \in {"handleTx", "done"}
                  /\ result # "raised"
                  /\ call.functionName = "safeBatchTransferFrom"
                  /\ call.args[3] = ids
                  /\ call.args[4] = amts
                  /\ Len(call.args[3]) = Len(call.args[4])
                  /\ Len(call.args[3]) > 0
                  /\ \A i \in 1..Len(submitted) : submitted[i] = call
             ELSE /\ result = "raised"
                  /\ error = "No tokens to transfer"
                  /\ submitted = <<>>

\* a batch was submitted after the first of two ids was dropped
C5_Witness ==
    /\ fn = "transferERC1155"
    /\ Len(submitted) = 1
    /\ props.tokenIDs = <<7, 8>>
    /\ balances = Some(<<0, 2>>)
    /\ submitted[1].args[3] = <<8>>
    /\ submitted[1].args[4] = <<2>>

\* the sum of a list, taken from its last element down
RECURSIVE SumOf(_)
SumOf(s) == IF s = <<>> THEN 0 ELSE s[Len(s)] + SumOf(SubSeq(s, 1, Len(s) - 1))

\* C6: a submitted disperseEther call carries the sum of amounts as its value
\* and the caller's receivers and amounts unchanged; disperseToken carries no value.
C6_DisperseValue ==
    \A i \in 1..Len(submitted) :
        /\ submitted[i].functionName = "disperseEther"
              => /\ submitted[i].value = Some(SumOf(props.amounts))
                 /\ submitted[i].args = <<props.receivers, props.amounts>>
        /\ submitted[i].functionName = "disperseToken"
              => /\ submitted[i].value = None
                 /\ submitted[i].args = <<props.tokenToDisperse, props.receivers, props.amounts>>

\* disperseEther was submitted for two different amounts
C6_Witness ==
    /\ fn = "disperseETH"
    /\ Len(submitted) = 1
    /\ props.amounts = <<1, 2>>
    /\ submitted[1].value = Some(3)

\* the fee the claim names: the prepared value or, when absent, the gas price
C7_ClaimedFee(c) ==
    IF prepared[c].maxPriorityFeePerGas # None
    THEN prepared[c].maxPriorityFeePerGas[1]
    ELSE toBigInt(gasPrice[c])

\* C7: transferEther sends at most one transaction, to receiverAddress; its
\* value is amount, or with shouldAdjustForGas
\* amount - (gas * maxPriorityFeePerGas + 21000); it is between 0 and amount.
C7_ValueSent ==
    \A c \in Calls :
        /\ Len(sent[c]) <= 1
        /\ \A i \in 1..Len(sent[c]) :
              /\ sent[c][i].to = eprops[c].receiverAddress
              /\ sent[c][i].value =
                    IF eprops[c].shouldAdjustForGas
                    THEN eprops[c].amount
                           - (toBigInt(prepared[c].gas) * C7_ClaimedFee(c) + BaseTransferCost)
                    ELSE eprops[c].amount
              /\ 0 <= sent[c][i].value
              /\ sent[c][i].value <= eprops[c].amount

Finished(c) == epc[c] \in {"returned", "raised"}
InFlight(c) == epc[c] \notin {"idle", "returned", "raised"}
Terminal == {"success", "error"}

\* C8: with a callback, a transferEther call reports pending first, then at most
\* one terminal status, success only for a 'success' receipt returned as
\* isSuccessful; and once the call is over and no reset is outstanding, the last
\* status it reported is the default one.
C8_StatusLifecycle ==
    \A c \in Calls :
        LET L == StatusesOf(c)
        IN /\ L # <<>> => L[1].status = "pending"
           /\ Cardinality({i \in 1..Len(L) : L[i].status \in Terminal}) <= 1
           /\ (\E i \in 1..Len(L) : L[i].status = "success")
                 => (eresult[c].isSuccessful /\ eresult[c].detail = "success")
           /\ (Finished(c) /\ ~timer[c] /\ L # <<>>) => L[Len(L)].status = "default"

\* C9: while a call is in flight, no default-status reset scheduled by the other
\* call reaches the shared callback after that call's pending report.
C9_NoStaleReset ==
    \A c \in Calls :
        InFlight(c)
           => \A i, j \in 1..Len(statusLog) :
                 (i < j /\ statusLog[i] = [call |-> c, status |-> "pending"])
                    => ~(statusLog[j].status = "default" /\ statusLog[j].call # c)

\* C10: one approveERC20 call submits at most two approve calls, the standard one
\* and then at most once the alternate one, with the same spender and amount;
\* its own fallback has replaced the caller's.
C10_AtMostTwoApproves ==
    fn = "approveERC20"
       => /\ Len(submitted) <= 2
          /\ \A i \in 1..Len(submitted) :
                /\ submitted[i].functionName = "approve"
                /\ submitted[i].abi = (IF i = 1 THEN "erc20ABI" ELSE "ALTERNATE_ERC20_APPROVE_ABI")
                /\ submitted[i].args = <<props.spenderAddress, props.amount>>
          /\ \A i \in 1..Len(effects) : effects[i] # "fallback"
          /\ pc # "idle" /\ result # "raised" => props.onTrySomethingElse = "approveERC20"

====
